---- MODULE Spec2Model ----
(***************************************************************************)
(* The worker-pool task queue of the pooler crate: TaskQueue<T> owning a   *)
(* Vec<Task> and an ArcQueue<T> backlog (a mutex around the two-stack      *)
(* Queue of the dater crate).  Every lock-protected critical section of    *)
(* the code is one atomic step; everything between two critical sections   *)
(* of one thread may interleave with the other threads.                    *)
(***************************************************************************)
EXTENDS Integers, Sequences, FiniteSets, TLC

\* Bounds of the model.
MaxTasks == 2
MaxItems == 2

\* The producer threads that call push (test_concurrent_pushes spawns several).
Producers == {"p1", "p2"}

Tasks == 1..MaxTasks
Items == 1..MaxItems
None == 0

VARIABLES
    taskCount,       \* task_count given to TaskQueue::new = tasks.len()
    backlog,         \* TaskQueue.backlog: the Queue {items, backlog} behind the ArcQueue mutex
    is_processing,   \* Task.is_processing of every task
    is_canceled,     \* Task.is_canceled of every task
    tpc,             \* position of every task's thread in the loop of Task::new
    cur,             \* the item a task's thread got from pop and is handling (None: none)
    nPushed,         \* number of push calls completed
    owner,           \* history: the producer that pushed each item
    started,         \* history: the items the handler was invoked on, in invocation order
    outcome,         \* history: how the handler invocation on an item ended
    mpc,             \* position of the thread that owns the pool (wait, is_busy, drop)
    midx,            \* index of the task that thread is looking at (iter().any / Vec drop)
    pushedAtCall,    \* history: nPushed when the latest wait() was called (-1: never called)
    inFlightAtDrop,  \* history: the items whose handler was running when the drop began
    aqCell,          \* the Arc<Mutex<Queue<T>>> allocations: the Queue inside each
    aqHandle,        \* the ArcQueue value every thread holds: its allocation (0: no handle)
    aqGuard,         \* the allocation whose MutexGuard a thread holds inside a call (0: none)
    aqSent,          \* number of items every producer has pushed
    aqPushLog,       \* history: the items pushed, in the order the pushes took the lock
    aqGot,           \* history: the items popped and the consumer that got each, in lock order
    sq,              \* a Queue<T> owned by one thread
    sqModel,         \* history: the items sq must hold, oldest first
    sqLast,          \* history: the latest call on sq, its result and the expected result
    stk,             \* a Stack<T> owned by one thread (top = last element)
    stkModel,        \* history: the items stk must hold, in the order they were pushed
    stkLast,         \* history: the latest call on stk, its result and the expected result
    sigValue,        \* the Arc<Mutex<T>> value allocations of Signal: the value in each
    sigCallbacks,    \* the Arc<Mutex<Vec<..>>> callback allocations: the callbacks in each
    sigHandle,       \* the Signal every thread holds: its allocations (0: no handle)
    sigVLock,        \* the thread holding the guard of each value mutex ("free": none)
    sigCLock,        \* the thread holding the guard of each callbacks mutex ("free": none)
    sigPc,           \* position of every thread inside Signal::set
    sigArg,          \* new_value of the set a thread is executing
    sigCalled,       \* history: the callbacks the set a thread is executing has invoked
    sigRegLog,       \* history: the callbacks registered, in the order listen took the lock
    mqHandlers,      \* MessageQueue.handlers
    mqLast,          \* history: the latest notify, its message and the handlers it called
    gNodes,          \* Graph.nodes
    gEdges,          \* Graph.edges
    gNextNode,       \* Graph.next_node_id
    gNextEdge,       \* Graph.next_edge_id
    gLast,           \* history: the latest call on the graph and its result
    gLog,            \* history: the ids insert and connect returned, and the inserted values
    props,           \* PropertyCollection.props
    pLast            \* history: the latest call on the collection and its result

poolVars == <<taskCount, backlog, is_processing, is_canceled, tpc, cur, nPushed, owner,
              started, outcome, mpc, midx, pushedAtCall, inFlightAtDrop>>

arcVars == <<aqCell, aqHandle, aqGuard, aqSent, aqPushLog, aqGot>>
seqVars == <<sq, sqModel, sqLast>>
daterVars == <<arcVars, seqVars>>

stackVars == <<stk, stkModel, stkLast>>
signalVars == <<sigValue, sigCallbacks, sigHandle, sigVLock, sigCLock, sigPc, sigArg,
                sigCalled, sigRegLog>>
mqVars == <<mqHandlers, mqLast>>
graphVars == <<gNodes, gEdges, gNextNode, gNextEdge, gLast, gLog>>
propVars == <<props, pLast>>
utilVars == <<stackVars, signalVars, mqVars, graphVars, propVars>>

otherVars == <<daterVars, utilVars>>

vars == <<poolVars, daterVars, utilVars>>

taskVars == <<is_processing, is_canceled, tpc, cur>>
histVars == <<owner, started, outcome>>
ownerVars == <<mpc, midx, pushedAtCall, inFlightAtDrop>>

(***************************************************************************)
(* Stack (linked list, top = last element of the sequence) and Queue.      *)
(***************************************************************************)
StackPush(s, v) == Append(s, v)

StackTop(s) == s[Len(s)]

StackRest(s) == SubSeq(s, 1, Len(s) - 1)

QueueNew == [items |-> <<>>, backlog |-> <<>>]

\* A push onto the items stack, the one pop takes from.
QueuePushFront(q, item) == [q EXCEPT !.items = StackPush(q.items, item)]

QueuePush(q, item) == [q EXCEPT !.backlog = StackPush(q.backlog, item)]

\* while let Some(item) = self.backlog.pop() { self.items.push(item) }
RECURSIVE QueueFlush(_)
QueueFlush(q) ==
    IF q.backlog = <<>> THEN q
    ELSE QueueFlush([items |-> StackPush(q.items, StackTop(q.backlog)),
                     backlog |-> StackRest(q.backlog)])

\* A pop that takes the newest item instead of the oldest.
QueuePopNewest(q) ==
    IF q.backlog # <<>>
    THEN [item |-> StackTop(q.backlog), queue |-> [q EXCEPT !.backlog = StackRest(q.backlog)]]
    ELSE IF q.items # <<>>
         THEN [item |-> StackTop(q.items), queue |-> [q EXCEPT !.items = StackRest(q.items)]]
         ELSE [item |-> None, queue |-> q]

QueuePop(q) ==
    IF q.items # <<>>
    THEN [item |-> StackTop(q.items), queue |-> [q EXCEPT !.items = StackRest(q.items)]]
    ELSE LET f == QueueFlush(q)
         IN  IF f.items # <<>>
             THEN [item |-> StackTop(f.items), queue |-> [f EXCEPT !.items = StackRest(f.items)]]
             ELSE [item |-> None, queue |-> f]

\* An emptiness test that forgets the backlog stack.
QueueIsEmptyItemsOnly(q) == q.items = <<>>

QueueIsEmpty(q) == q.items = <<>> /\ q.backlog = <<>>

\* The items of the queue, oldest first.
RECURSIVE Reverse(_)
Reverse(s) == IF s = <<>> THEN <<>> ELSE Append(Reverse(Tail(s)), Head(s))

QueueContents(q) == Reverse(q.items) \o q.backlog

Range(s) == {s[i] : i \in 1..Len(s)}

(***************************************************************************)
(* A Queue<T> used by one thread: push, pop and peek in any order.  The    *)
(* history variable sqModel is the sequence the queue has to hold.         *)
(***************************************************************************)
\* Bound on the number of items the single-thread queue holds at a time.
MaxQLen == 3

\* A peek that flushes the backlog stack whatever the items stack holds.
QueuePeekEager(q) ==
    LET f == QueueFlush(q)
    IN  [item |-> IF f.items = <<>> THEN None ELSE StackTop(f.items), queue |-> f]

\* Queue::peek: the backlog is flushed only when the items stack is empty
QueuePeek(q) ==
    LET f == IF q.items = <<>> THEN QueueFlush(q) ELSE q
    IN  [item |-> IF f.items = <<>> THEN None ELSE StackTop(f.items), queue |-> f]

Front(s) == IF s = <<>> THEN None ELSE Head(s)

SeqInit ==
    /\ sq = QueueNew
    /\ sqModel = <<>>
    /\ sqLast = [op |-> "new", res |-> None, want |-> None]

SeqPush(v) ==
    /\ Len(sqModel) < MaxQLen
    /\ sq' = QueuePush(sq, v)
    /\ sqModel' = Append(sqModel, v)
    /\ sqLast' = [op |-> "push", res |-> None, want |-> None]
    /\ UNCHANGED <<poolVars, utilVars, arcVars>>

SeqPop ==
    /\ LET r == QueuePop(sq)
       IN  /\ sq' = r.queue
           /\ sqLast' = [op |-> "pop", res |-> r.item, want |-> Front(sqModel)]
    /\ sqModel' = IF sqModel = <<>> THEN <<>> ELSE Tail(sqModel)
    /\ UNCHANGED <<poolVars, utilVars, arcVars>>

SeqPeek ==
    /\ LET r == QueuePeek(sq)
       IN  /\ sq' = r.queue
           /\ sqLast' = [op |-> "peek", res |-> r.item, want |-> Front(sqModel)]
    /\ UNCHANGED <<poolVars, utilVars, arcVars, sqModel>>

(***************************************************************************)
(* ArcQueue<T>: handles (clones) to one Arc<Mutex<Queue<T>>>.  Producer    *)
(* threads push their own numbered items, consumer threads pop; every      *)
(* thread works through the handle it was given.  A call is two steps:     *)
(* lock() returns the guard, then the Queue operation runs and the guard   *)
(* is dropped.                                                             *)
(***************************************************************************)
\* Bound on the number of items each producer pushes.
MaxSends == 2

Consumers == {"c1", "c2"}
AqThreads == Producers \cup Consumers
AqHolders == AqThreads \cup {"main"}
AqCells == 1..(1 + Cardinality(AqThreads))

\* The k-th item of producer p: its producer and its number can be read back.
ProducerNo == [p \in Producers |-> IF p = "p1" THEN 1 ELSE 2]
AqItem(p, k) == 10 * ProducerNo[p] + k
ProducerOf(item) == CHOOSE p \in Producers : ProducerNo[p] = item \div 10

\* ArcQueue::new in the main thread
ArcInit ==
    /\ aqCell = [c \in AqCells |-> QueueNew]
    /\ aqHandle = [t \in AqHolders |-> IF t = "main" THEN 1 ELSE 0]
    /\ aqGuard = [t \in AqThreads |-> 0]
    /\ aqSent = [p \in Producers |-> 0]
    /\ aqPushLog = <<>>
    /\ aqGot = <<>>

\* A clone that copies the queue into an allocation of its own.
ArcCloneCopy(src, t) ==
    /\ aqHandle[src] # 0
    /\ aqHandle[t] = 0
    /\ LET fresh == 1 + Cardinality({u \in AqHolders : aqHandle[u] # 0})
       IN  /\ aqCell' = [aqCell EXCEPT ![fresh] = aqCell[aqHandle[src]]]
           /\ aqHandle' = [aqHandle EXCEPT ![t] = fresh]
    /\ UNCHANGED <<poolVars, utilVars, seqVars, aqGuard, aqSent, aqPushLog, aqGot>>

\* Clone for ArcQueue: Arc::clone(&self.items), given to thread t
ArcClone(src, t) ==
    /\ aqHandle[src] # 0
    /\ aqHandle[t] = 0
    /\ aqHandle' = [aqHandle EXCEPT ![t] = aqHandle[src]]
    /\ UNCHANGED <<poolVars, utilVars, seqVars, aqCell, aqGuard, aqSent, aqPushLog, aqGot>>

\* A lock that is granted while another thread holds the guard.
ArcLockNoMutex(t) ==
    /\ aqHandle[t] # 0
    /\ aqGuard[t] = 0
    /\ t \in Producers => aqSent[t] < MaxSends
    /\ aqGuard' = [aqGuard EXCEPT ![t] = aqHandle[t]]
    /\ UNCHANGED <<poolVars, utilVars, seqVars, aqCell, aqHandle, aqSent, aqPushLog, aqGot>>

\* self.items.lock(): returns when no other thread holds the guard
ArcLock(t) ==
    /\ aqHandle[t] # 0
    /\ aqGuard[t] = 0
    /\ \A u \in AqThreads : aqGuard[u] # aqHandle[t]
    /\ t \in Producers => aqSent[t] < MaxSends
    /\ aqGuard' = [aqGuard EXCEPT ![t] = aqHandle[t]]
    /\ UNCHANGED <<poolVars, utilVars, seqVars, aqCell, aqHandle, aqSent, aqPushLog, aqGot>>

\* ArcQueue::push after the lock: guard.push(item), the guard is dropped
ArcPush(p) ==
    /\ aqGuard[p] # 0
    /\ LET item == AqItem(p, aqSent[p] + 1)
       IN  /\ aqCell' = [aqCell EXCEPT ![aqGuard[p]] = QueuePush(@, item)]
           /\ aqPushLog' = Append(aqPushLog, item)
    /\ aqSent' = [aqSent EXCEPT ![p] = @ + 1]
    /\ aqGuard' = [aqGuard EXCEPT ![p] = 0]
    /\ UNCHANGED <<poolVars, utilVars, seqVars, aqHandle, aqGot>>

\* ArcQueue::pop after the lock: guard.pop(), the guard is dropped
ArcPop(c) ==
    /\ aqGuard[c] # 0
    /\ LET r == QueuePop(aqCell[aqGuard[c]])
       IN  /\ aqCell' = [aqCell EXCEPT ![aqGuard[c]] = r.queue]
           /\ aqGot' = IF r.item = None THEN aqGot
                       ELSE Append(aqGot, [item |-> r.item, by |-> c])
    /\ aqGuard' = [aqGuard EXCEPT ![c] = 0]
    /\ UNCHANGED <<poolVars, utilVars, seqVars, aqHandle, aqSent, aqPushLog>>

\* ArcQueue::is_empty through the handle of h, one critical section
ArcIsEmpty(h) == QueueIsEmpty(aqCell[aqHandle[h]])

(***************************************************************************)
(* A Stack<T> used by one thread: push, pop and reverse in any order.      *)
(* The history variable stkModel is the push order of the items held.      *)
(***************************************************************************)
StackNew == <<>>

\* the values pushed (test_push_and_pop pushes 1, 2, 3)
StackValues == {1, 2, 3}

\* A pop that takes the item at the bottom of the list.
StackPopBottom(s) ==
    IF s = <<>> THEN [item |-> None, stack |-> s]
    ELSE [item |-> Head(s), stack |-> Tail(s)]

\* Stack::pop: self.head.take().map(|node| { self.head = node.previous; node.value })
StackPop(s) ==
    IF s = <<>> THEN [item |-> None, stack |-> s]
    ELSE [item |-> StackTop(s), stack |-> StackRest(s)]

\* Stack::reverse: for x in self { reversed.push(x) }, the iterator pops
RECURSIVE StackReverseInto(_, _)
StackReverseInto(s, reversed) ==
    LET r == StackPop(s)
    IN  IF r.item = None THEN reversed
        ELSE StackReverseInto(r.stack, StackPush(reversed, r.item))

StackReverse(s) == StackReverseInto(s, StackNew)

\* The items a stack gives when it is popped until it is empty.
RECURSIVE StackPopOrder(_)
StackPopOrder(s) ==
    LET r == StackPop(s)
    IN  IF r.item = None THEN <<>> ELSE <<r.item>> \o StackPopOrder(r.stack)

Last(s) == IF s = <<>> THEN None ELSE s[Len(s)]

StackInit ==
    /\ stk = StackNew
    /\ stkModel = <<>>
    /\ stkLast = [op |-> "new", res |-> <<>>, want |-> <<>>]

stackRest == <<poolVars, daterVars, signalVars, mqVars, graphVars, propVars>>

StkPush(v) ==
    /\ Len(stkModel) < MaxQLen
    /\ stk' = StackPush(stk, v)
    /\ stkModel' = Append(stkModel, v)
    /\ stkLast' = [op |-> "push", res |-> <<>>, want |-> <<>>]
    /\ UNCHANGED stackRest

StkPop ==
    /\ LET r == StackPop(stk)
       IN  /\ stk' = r.stack
           /\ stkLast' = [op |-> "pop", res |-> <<r.item>>, want |-> <<Last(stkModel)>>]
    /\ stkModel' = IF stkModel = <<>> THEN <<>> ELSE SubSeq(stkModel, 1, Len(stkModel) - 1)
    /\ UNCHANGED stackRest

\* let stack = stack.reverse(): the new stack was pushed in the pop order of
\* the old one; the result records the pop order of the new stack
StkReverse ==
    /\ stk' = StackReverse(stk)
    /\ stkModel' = Reverse(stkModel)
    /\ stkLast' = [op |-> "reverse", res |-> StackPopOrder(StackReverse(stk)), want |-> stkModel]
    /\ UNCHANGED stackRest

(***************************************************************************)
(* Signal<T>: handles (clones) to one value mutex and one callbacks mutex. *)
(* Threads call set, listen and get through the handle they were given.    *)
(* A callback is known by the thread that registered it and its number;    *)
(* callbacks return and do not call the signal.  set holds the value guard *)
(* from its first statement to its return, so taking that guard and the    *)
(* assignment are one step.                                                *)
(***************************************************************************)
\* Bound on the number of callbacks registered.
MaxCallbacks == 2

SigThreads == {"t1", "t2"}
SigHolders == SigThreads \cup {"main"}
SigCells == 1..(1 + Cardinality(SigThreads))
SigValues == 1..MaxItems

SigNo == [t \in SigThreads |-> IF t = "t1" THEN 1 ELSE 2]
SigCb(t, k) == 10 * SigNo[t] + k
SigCbOwner(cb) == CHOOSE t \in SigThreads : SigNo[t] = cb \div 10

\* Signal::new(0) in the main thread
SignalInit ==
    /\ sigValue = [c \in SigCells |-> 0]
    /\ sigCallbacks = [c \in SigCells |-> <<>>]
    /\ sigHandle = [h \in SigHolders |-> IF h = "main" THEN 1 ELSE 0]
    /\ sigVLock = [c \in SigCells |-> "free"]
    /\ sigCLock = [c \in SigCells |-> "free"]
    /\ sigPc = [t \in SigThreads |-> "idle"]
    /\ sigArg = [t \in SigThreads |-> 0]
    /\ sigCalled = [t \in SigThreads |-> <<>>]
    /\ sigRegLog = <<>>

signalRest == <<poolVars, daterVars, stackVars, mqVars, graphVars, propVars>>

\* A clone that is a new signal holding the current value and no callback.
SignalCloneNew(src, t) ==
    /\ sigHandle[src] # 0
    /\ sigHandle[t] = 0
    /\ LET fresh == 1 + Cardinality({u \in SigHolders : sigHandle[u] # 0})
       IN  /\ sigValue' = [sigValue EXCEPT ![fresh] = sigValue[sigHandle[src]]]
           /\ sigHandle' = [sigHandle EXCEPT ![t] = fresh]
    /\ UNCHANGED <<signalRest, sigCallbacks, sigVLock, sigCLock, sigPc, sigArg, sigCalled,
                   sigRegLog>>

\* Clone for Signal: both Arcs are cloned, the clone is given to thread t
SignalClone(src, t) ==
    /\ sigHandle[src] # 0
    /\ sigHandle[t] = 0
    /\ sigHandle' = [sigHandle EXCEPT ![t] = sigHandle[src]]
    /\ UNCHANGED <<signalRest, sigValue, sigCallbacks, sigVLock, sigCLock, sigPc, sigArg,
                   sigCalled, sigRegLog>>

\* Signal::set: let mut value = self.value.lock().unwrap(); *value = new_value
SignalSetStore(t, v) ==
    /\ sigPc[t] = "idle"
    /\ sigHandle[t] # 0
    /\ sigVLock[sigHandle[t]] = "free"
    /\ sigVLock' = [sigVLock EXCEPT ![sigHandle[t]] = t]
    /\ sigValue' = [sigValue EXCEPT ![sigHandle[t]] = v]
    /\ sigArg' = [sigArg EXCEPT ![t] = v]
    /\ sigPc' = [sigPc EXCEPT ![t] = "stored"]
    /\ UNCHANGED <<signalRest, sigCallbacks, sigHandle, sigCLock, sigCalled, sigRegLog>>

\* Signal::set: let callbacks = self.callbacks.lock().unwrap()
SignalSetLockCallbacks(t) ==
    /\ sigPc[t] = "stored"
    /\ sigCLock[sigHandle[t]] = "free"
    /\ sigCLock' = [sigCLock EXCEPT ![sigHandle[t]] = t]
    /\ sigPc' = [sigPc EXCEPT ![t] = "calling"]
    /\ UNCHANGED <<signalRest, sigValue, sigCallbacks, sigHandle, sigVLock, sigArg, sigCalled,
                   sigRegLog>>

\* A loop over the callbacks from the last registered to the first.
SignalSetCallReverse(t) ==
    /\ sigPc[t] = "calling"
    /\ Len(sigCalled[t]) < Len(sigCallbacks[sigHandle[t]])
    /\ LET cbs == sigCallbacks[sigHandle[t]]
           cb == cbs[Len(cbs) - Len(sigCalled[t])]
       IN  sigCalled' = [sigCalled EXCEPT
                            ![t] = Append(@, [cb |-> cb, v |-> sigValue[sigHandle[t]]])]
    /\ UNCHANGED <<signalRest, sigValue, sigCallbacks, sigHandle, sigVLock, sigCLock, sigPc,
                   sigArg, sigRegLog>>

\* Signal::set: for callback in callbacks.iter() { callback(&*value) }, one
\* callback per step
SignalSetCall(t) ==
    /\ sigPc[t] = "calling"
    /\ Len(sigCalled[t]) < Len(sigCallbacks[sigHandle[t]])
    /\ LET cb == sigCallbacks[sigHandle[t]][Len(sigCalled[t]) + 1]
       IN  sigCalled' = [sigCalled EXCEPT
                            ![t] = Append(@, [cb |-> cb, v |-> sigValue[sigHandle[t]]])]
    /\ UNCHANGED <<signalRest, sigValue, sigCallbacks, sigHandle, sigVLock, sigCLock, sigPc,
                   sigArg, sigRegLog>>

\* Signal::set returns after the last callback: both guards are dropped
SignalSetReturn(t) ==
    /\ sigPc[t] = "calling"
    /\ Len(sigCalled[t]) = Len(sigCallbacks[sigHandle[t]])
    /\ sigVLock' = [sigVLock EXCEPT ![sigHandle[t]] = "free"]
    /\ sigCLock' = [sigCLock EXCEPT ![sigHandle[t]] = "free"]
    /\ sigPc' = [sigPc EXCEPT ![t] = "idle"]
    /\ sigArg' = [sigArg EXCEPT ![t] = 0]
    /\ sigCalled' = [sigCalled EXCEPT ![t] = <<>>]
    /\ UNCHANGED <<signalRest, sigValue, sigCallbacks, sigHandle, sigRegLog>>

\* Signal::listen: callbacks.lock(), callbacks.push(Box::new(callback))
SignalListen(t) ==
    /\ sigPc[t] = "idle"
    /\ sigHandle[t] # 0
    /\ sigCLock[sigHandle[t]] = "free"
    /\ Len(sigRegLog) < MaxCallbacks
    /\ LET cb == SigCb(t, 1 + Cardinality({k \in 1..Len(sigRegLog) : SigCbOwner(sigRegLog[k]) = t}))
       IN  /\ sigCallbacks' = [sigCallbacks EXCEPT ![sigHandle[t]] = Append(@, cb)]
           /\ sigRegLog' = Append(sigRegLog, cb)
    /\ UNCHANGED <<signalRest, sigValue, sigHandle, sigVLock, sigCLock, sigPc, sigArg, sigCalled>>

\* Signal::get through the handle of h, once the value guard is free
SignalGet(h) == sigValue[sigHandle[h]]

(***************************************************************************)
(* MessageQueue<T>: a Vec of handlers, each a function from the message to *)
(* bool.  A handler is known by what it returns.                           *)
(***************************************************************************)
\* Bound on the number of handlers added.
MaxHandlers == 3

HandlerKinds == {"never", "always", "ifOne"}
Messages == {1, 2}

\* the bool the handler returns for the message
HandlerResult(kind, msg) == kind = "always" \/ (kind = "ifOne" /\ msg = 1)

\* A loop that calls every handler whatever they return.
RECURSIVE MqNotifyAll(_, _, _)
MqNotifyAll(handlers, msg, i) ==
    IF i > Len(handlers) THEN <<>> ELSE <<i>> \o MqNotifyAll(handlers, msg, i + 1)

\* for handler in &self.handlers { if handler(message) { break; } }: the
\* indices of the handlers called, from handler i on
RECURSIVE MqNotifyFrom(_, _, _)
MqNotifyFrom(handlers, msg, i) ==
    IF i > Len(handlers) THEN <<>>
    ELSE IF HandlerResult(handlers[i], msg) THEN <<i>>
         ELSE <<i>> \o MqNotifyFrom(handlers, msg, i + 1)

\* MessageQueue::new
MqInit ==
    /\ mqHandlers = <<>>
    /\ mqLast = [msg |-> 0, n |-> 0, called |-> <<>>]

mqRest == <<poolVars, daterVars, stackVars, signalVars, graphVars, propVars>>

\* MessageQueue::add_handler
MqAddHandler(kind) ==
    /\ Len(mqHandlers) < MaxHandlers
    /\ mqHandlers' = Append(mqHandlers, kind)
    /\ UNCHANGED <<mqRest, mqLast>>

\* MessageQueue::notify
MqNotify(msg) ==
    /\ mqLast' = [msg |-> msg, n |-> Len(mqHandlers), called |-> MqNotifyFrom(mqHandlers, msg, 1)]
    /\ UNCHANGED <<mqRest, mqHandlers>>

(***************************************************************************)
(* Graph<T, E>: two HashMaps and the two id counters.                      *)
(***************************************************************************)
\* Bounds on the number of inserts and of edges made.
MaxNodes == 2
MaxEdges == 2

NodeValues == {1, 2}
EdgeValues == {1}
\* the ids connect is called with: ids of nodes and ids no node has
NodeIdInputs == 0..MaxNodes

EmptyMap == [x \in {} |-> 0]
MapInsert(m, k, v) == [x \in DOMAIN m \cup {k} |-> IF x = k THEN v ELSE m[x]]
MapRemove(m, k) == [x \in DOMAIN m \ {k} |-> m[x]]

GNone == [some |-> FALSE, id |-> 0]
GSome(id) == [some |-> TRUE, id |-> id]

\* An id generator that does not advance the counter.
GraphCreateIdStuck(next) == [id |-> next, next |-> next]

\* Graph::create_node_id / create_edge_id: the id and the counter after it
GraphCreateId(next) == [id |-> next, next |-> next + 1]

\* Graph::new
GraphInit ==
    /\ gNodes = EmptyMap
    /\ gEdges = EmptyMap
    /\ gNextNode = 0
    /\ gNextEdge = 0
    /\ gLast = [op |-> "new", from |-> 0, to |-> 0, res |-> GNone]
    /\ gLog = [nodes |-> <<>>, edges |-> <<>>]

graphRest == <<poolVars, daterVars, stackVars, signalVars, mqVars, propVars>>

\* Graph::insert
GraphInsert(value) ==
    /\ Len(gLog.nodes) < MaxNodes
    /\ LET c == GraphCreateId(gNextNode)
       IN  /\ gNextNode' = c.next
           /\ gNodes' = MapInsert(gNodes, c.id, value)
           /\ gLast' = [op |-> "insert", from |-> 0, to |-> 0, res |-> GSome(c.id)]
           /\ gLog' = [gLog EXCEPT !.nodes = Append(@, [id |-> c.id, value |-> value])]
    /\ UNCHANGED <<graphRest, gEdges, gNextEdge>>

\* A connect without the self-loop test.
GraphConnectLoops(from, value, to) ==
    IF from \notin DOMAIN gNodes \/ to \notin DOMAIN gNodes
    THEN /\ gLast' = [op |-> "connect", from |-> from, to |-> to, res |-> GNone]
         /\ UNCHANGED <<graphRest, gNodes, gEdges, gNextNode, gNextEdge, gLog>>
    ELSE /\ Len(gLog.edges) < MaxEdges
         /\ LET c == GraphCreateId(gNextEdge)
            IN  /\ gNextEdge' = c.next
                /\ gEdges' = MapInsert(gEdges, c.id, [from |-> from, to |-> to, value |-> value])
                /\ gLast' = [op |-> "connect", from |-> from, to |-> to, res |-> GSome(c.id)]
                /\ gLog' = [gLog EXCEPT !.edges = Append(@, c.id)]
         /\ UNCHANGED <<graphRest, gNodes, gNextNode>>

\* Graph::connect
GraphConnect(from, value, to) ==
    IF from = to \/ from \notin DOMAIN gNodes \/ to \notin DOMAIN gNodes
    THEN /\ gLast' = [op |-> "connect", from |-> from, to |-> to, res |-> GNone]
         /\ UNCHANGED <<graphRest, gNodes, gEdges, gNextNode, gNextEdge, gLog>>
    ELSE /\ Len(gLog.edges) < MaxEdges
         /\ LET c == GraphCreateId(gNextEdge)
            IN  /\ gNextEdge' = c.next
                /\ gEdges' = MapInsert(gEdges, c.id, [from |-> from, to |-> to, value |-> value])
                /\ gLast' = [op |-> "connect", from |-> from, to |-> to, res |-> GSome(c.id)]
                /\ gLog' = [gLog EXCEPT !.edges = Append(@, c.id)]
         /\ UNCHANGED <<graphRest, gNodes, gNextNode>>

GraphNodeCount == Cardinality(DOMAIN gNodes)
GraphEdgeCount == Cardinality(DOMAIN gEdges)

\* Graph::node: the value of the node, None when no node has the id
GraphNode(id) == IF id \in DOMAIN gNodes THEN gNodes[id] ELSE None

(***************************************************************************)
(* PropertyCollection: a HashMap from keys to PropertyValues.              *)
(***************************************************************************)
PropKeys == {"key1", "key2", "test_key"}
PropValues == {"Integer(1)", "String(value2)", "Boolean(true)"}
PNone == "None"
PPanic == "panic: No property found for key"

\* PropertyCollection::new
PropInit ==
    /\ props = EmptyMap
    /\ pLast = [op |-> "new", key |-> "", res |-> PNone]

propRest == <<poolVars, daterVars, stackVars, signalVars, mqVars, graphVars>>

\* PropertyCollection::get
PropGet(k) == IF k \in DOMAIN props THEN props[k] ELSE PNone

\* PropertyCollection::len
PropLen == Cardinality(DOMAIN props)

\* PropertyCollection::set
PropSet(k, v) ==
    /\ props' = MapInsert(props, k, v)
    /\ pLast' = [op |-> "set", key |-> k, res |-> PNone]
    /\ UNCHANGED propRest

\* PropertyCollection::remove
PropRemove(k) ==
    /\ props' = MapRemove(props, k)
    /\ pLast' = [op |-> "remove", key |-> k, res |-> PNone]
    /\ UNCHANGED propRest

\* PropertyCollection::clear
PropClear ==
    /\ props' = EmptyMap
    /\ pLast' = [op |-> "clear", key |-> "", res |-> PNone]
    /\ UNCHANGED propRest

\* An index operator that answers None for a key that is absent.
PropIndexLenient(k) ==
    /\ pLast' = [op |-> "index", key |-> k, res |-> PropGet(k)]
    /\ UNCHANGED <<propRest, props>>

\* Index<&str>: self.props.get(key).expect("No property found for key")
PropIndex(k) ==
    /\ pLast' = [op |-> "index", key |-> k,
                 res |-> IF k \in DOMAIN props THEN props[k] ELSE PPanic]
    /\ UNCHANGED <<propRest, props>>

(***************************************************************************)
(* TaskQueue::new: task_count tasks, every flag false, an empty backlog.   *)
(***************************************************************************)
Init ==
    /\ taskCount \in 0..MaxTasks
    /\ backlog = QueueNew
    /\ is_processing = [w \in Tasks |-> FALSE]
    /\ is_canceled = [w \in Tasks |-> FALSE]
    /\ tpc = [w \in Tasks |-> IF w <= taskCount THEN "top" ELSE "none"]
    /\ cur = [w \in Tasks |-> None]
    /\ nPushed = 0
    /\ owner = [i \in Items |-> "nobody"]
    /\ started = <<>>
    /\ outcome = [i \in Items |-> "none"]
    /\ mpc = "idle"
    /\ midx = 0
    /\ pushedAtCall = -1
    /\ inFlightAtDrop = {}
    /\ ArcInit
    /\ SeqInit
    /\ StackInit
    /\ SignalInit
    /\ MqInit
    /\ GraphInit
    /\ PropInit

(***************************************************************************)
(* TaskQueue::push, by any producer thread holding a reference to the pool.*)
(***************************************************************************)
Push(p) ==
    /\ mpc \notin {"d_cancel", "d_join", "dropped"}
    /\ nPushed < MaxItems
    /\ nPushed' = nPushed + 1
    /\ backlog' = QueuePush(backlog, nPushed + 1)
    /\ owner' = [owner EXCEPT ![nPushed + 1] = p]
    /\ UNCHANGED <<otherVars, taskCount, taskVars, started, outcome, ownerVars>>

(***************************************************************************)
(* The thread of one Task: the loop of Task::new, with the handler closure *)
(* TaskQueue::new gives it (pop one item, run the user handler on it,      *)
(* return true).                                                           *)
(***************************************************************************)
\* A cancellation check that never breaks the loop.
TaskCheckCanceledNever(w) ==
    /\ tpc[w] = "top"
    /\ tpc' = [tpc EXCEPT ![w] = "mark"]
    /\ UNCHANGED <<otherVars, taskCount, backlog, is_processing, is_canceled, cur, nPushed,
                   histVars, ownerVars>>

\* let is_cancelled = *thread_is_canceled.lock(); if is_cancelled { break }
TaskCheckCanceled(w) ==
    /\ tpc[w] = "top"
    /\ tpc' = [tpc EXCEPT ![w] = IF is_canceled[w] THEN "exited" ELSE "mark"]
    /\ UNCHANGED <<otherVars, taskCount, backlog, is_processing, is_canceled, cur, nPushed,
                   histVars, ownerVars>>

\* A loop that goes to the handler without raising the processing flag.
TaskSetProcessingSkip(w) ==
    /\ tpc[w] = "mark"
    /\ tpc' = [tpc EXCEPT ![w] = "pop"]
    /\ UNCHANGED <<otherVars, taskCount, backlog, is_processing, is_canceled, cur, nPushed,
                   histVars, ownerVars>>

\* *processing = true, before the handler closure is entered
TaskSetProcessing(w) ==
    /\ tpc[w] = "mark"
    /\ is_processing' = [is_processing EXCEPT ![w] = TRUE]
    /\ tpc' = [tpc EXCEPT ![w] = "pop"]
    /\ UNCHANGED <<otherVars, taskCount, backlog, is_canceled, cur, nPushed, histVars, ownerVars>>

\* if let Some(item) = thread_backlog.pop() { handler(item) } : the pop, and
\* the entry into the user handler when an item came out
TaskHandlerPop(w) ==
    /\ tpc[w] = "pop"
    /\ LET r == QueuePop(backlog)
       IN  /\ backlog' = r.queue
           /\ IF r.item # None
              THEN /\ cur' = [cur EXCEPT ![w] = r.item]
                   /\ started' = Append(started, r.item)
                   /\ tpc' = [tpc EXCEPT ![w] = "run"]
              ELSE /\ UNCHANGED <<cur, started>>
                   /\ tpc' = [tpc EXCEPT ![w] = "ret"]
    /\ UNCHANGED <<otherVars, taskCount, is_processing, is_canceled, nPushed, owner, outcome,
                   ownerVars>>

\* A loop without catch_unwind: a panic of the handler ends the thread.
TaskHandlerRunNoCatch(w) ==
    /\ tpc[w] = "run"
    /\ \E res \in {"ok", "panic"} :
          /\ outcome' = [outcome EXCEPT ![cur[w]] = res]
          /\ tpc' = [tpc EXCEPT ![w] = IF res = "ok" THEN "ret" ELSE "exited"]
    /\ cur' = [cur EXCEPT ![w] = None]
    /\ UNCHANGED <<otherVars, taskCount, backlog, is_processing, is_canceled, nPushed, owner,
                   started, ownerVars>>

\* A handler closure that puts the item back when the user handler panics.
TaskHandlerRunRetry(w) ==
    /\ tpc[w] = "run"
    /\ \E res \in {"ok", "panic"} :
          /\ outcome' = [outcome EXCEPT ![cur[w]] = res]
          /\ tpc' = [tpc EXCEPT ![w] = IF res = "ok" THEN "ret" ELSE "reset"]
          /\ backlog' = IF res = "ok" THEN backlog ELSE QueuePush(backlog, cur[w])
    /\ cur' = [cur EXCEPT ![w] = None]
    /\ UNCHANGED <<otherVars, taskCount, is_processing, is_canceled, nPushed, owner,
                   started, ownerVars>>

\* the user handler ends: it returns, or it panics and catch_unwind stops the
\* unwinding at the loop body (the rest of the closure is skipped)
TaskHandlerRun(w) ==
    /\ tpc[w] = "run"
    /\ \E res \in {"ok", "panic"} :
          /\ outcome' = [outcome EXCEPT ![cur[w]] = res]
          /\ tpc' = [tpc EXCEPT ![w] = IF res = "ok" THEN "ret" ELSE "reset"]
    /\ cur' = [cur EXCEPT ![w] = None]
    /\ UNCHANGED <<otherVars, taskCount, backlog, is_processing, is_canceled, nPushed, owner,
                   started, ownerVars>>

\* the closure returned true: *processing = false; return.  The loop body
\* then stores false once more, sleeps 10 ms and starts the next iteration.
TaskHandlerReturn(w) ==
    /\ tpc[w] = "ret"
    /\ is_processing' = [is_processing EXCEPT ![w] = FALSE]
    /\ tpc' = [tpc EXCEPT ![w] = "top"]
    /\ UNCHANGED <<otherVars, taskCount, backlog, is_canceled, cur, nPushed, histVars, ownerVars>>

\* after a caught panic: *processing = false; thread::sleep(10 ms); next iteration
TaskResetProcessing(w) ==
    /\ tpc[w] = "reset"
    /\ is_processing' = [is_processing EXCEPT ![w] = FALSE]
    /\ tpc' = [tpc EXCEPT ![w] = "top"]
    /\ UNCHANGED <<otherVars, taskCount, backlog, is_canceled, cur, nPushed, histVars, ownerVars>>

TaskStep(w) ==
    \/ TaskCheckCanceled(w)
    \/ TaskSetProcessing(w)
    \/ TaskHandlerPop(w)
    \/ TaskHandlerRun(w)
    \/ TaskHandlerReturn(w)
    \/ TaskResetProcessing(w)

\* Task::is_busy
TaskIsBusy(w) == is_processing[w]

\* Task::is_finished
TaskIsFinished(w) == tpc[w] = "exited"

(***************************************************************************)
(* The thread that owns the pool: is_empty, is_busy, wait and the drop.    *)
(* iter().any(..) reads the flags one task after the other and stops at    *)
(* the first true one.                                                     *)
(***************************************************************************)
\* TaskQueue::is_empty, one critical section on the backlog mutex
IsEmpty == QueueIsEmpty(backlog)

\* TaskQueue::is_busy is called
IsBusyCall ==
    /\ mpc = "idle"
    /\ IF taskCount = 0
       THEN UNCHANGED <<mpc, midx>>
       ELSE mpc' = "b_scan" /\ midx' = 1
    /\ UNCHANGED <<otherVars, taskCount, backlog, taskVars, nPushed, histVars, pushedAtCall,
                   inFlightAtDrop>>

\* self.tasks.iter().any(|task| task.is_busy()): one task per step, true at
\* the first flag read true, false after the last task
IsBusyScan ==
    /\ mpc = "b_scan"
    /\ IF TaskIsBusy(midx) \/ midx = taskCount
       THEN mpc' = "idle" /\ midx' = 0
       ELSE mpc' = mpc /\ midx' = midx + 1
    /\ UNCHANGED <<otherVars, taskCount, backlog, taskVars, nPushed, histVars, pushedAtCall,
                   inFlightAtDrop>>

\* TaskQueue::wait is called
WaitCall ==
    /\ mpc = "idle"
    /\ mpc' = "w_empty"
    /\ pushedAtCall' = nPushed
    /\ UNCHANGED <<otherVars, taskCount, backlog, taskVars, nPushed, histVars, midx, inFlightAtDrop>>

\* A wait that does not look at the backlog.
WaitIsEmptyBlind ==
    /\ mpc = "w_empty"
    /\ IF taskCount = 0
       THEN mpc' = "idle" /\ midx' = 0
       ELSE mpc' = "w_busy" /\ midx' = 1
    /\ UNCHANGED <<otherVars, taskCount, backlog, taskVars, nPushed, histVars, pushedAtCall,
                   inFlightAtDrop>>

\* while !self.is_empty() || ... : the left operand.  With no task the right
\* operand reads nothing and is false.
WaitIsEmpty ==
    /\ mpc = "w_empty"
    /\ IF ~IsEmpty
       THEN mpc' = "w_sleep" /\ midx' = 0
       ELSE IF taskCount = 0
            THEN mpc' = "idle" /\ midx' = 0
            ELSE mpc' = "w_busy" /\ midx' = 1
    /\ UNCHANGED <<otherVars, taskCount, backlog, taskVars, nPushed, histVars, pushedAtCall,
                   inFlightAtDrop>>

\* while ... || self.is_busy() : the right operand, one task per step; wait
\* returns when the last flag was read false too
WaitIsBusy ==
    /\ mpc = "w_busy"
    /\ IF TaskIsBusy(midx)
       THEN mpc' = "w_sleep" /\ midx' = 0
       ELSE IF midx = taskCount
            THEN mpc' = "idle" /\ midx' = 0
            ELSE mpc' = mpc /\ midx' = midx + 1
    /\ UNCHANGED <<otherVars, taskCount, backlog, taskVars, nPushed, histVars, pushedAtCall,
                   inFlightAtDrop>>

\* std::thread::sleep(100 ms), then the condition again
WaitSleep ==
    /\ mpc = "w_sleep"
    /\ mpc' = "w_empty"
    /\ UNCHANGED <<otherVars, taskCount, backlog, taskVars, nPushed, histVars, midx,
                   pushedAtCall, inFlightAtDrop>>

InFlight == {cur[w] : w \in {v \in Tasks : tpc[v] = "run"}}

\* the pool goes out of scope: its fields are dropped, tasks first
DropBegin ==
    /\ mpc = "idle"
    /\ mpc' = "d_cancel"
    /\ midx' = 1
    /\ inFlightAtDrop' = InFlight
    /\ UNCHANGED <<otherVars, taskCount, backlog, taskVars, nPushed, histVars, pushedAtCall>>

\* Drop for Task: *is_canceled = true (the Vec drops its tasks in order)
DropCancel ==
    /\ mpc = "d_cancel"
    /\ IF midx > taskCount
       THEN /\ mpc' = "dropped" /\ UNCHANGED is_canceled
       ELSE /\ mpc' = "d_join"
            /\ is_canceled' = [is_canceled EXCEPT ![midx] = TRUE]
    /\ UNCHANGED <<otherVars, taskCount, backlog, is_processing, tpc, cur, nPushed, histVars,
                   midx, pushedAtCall, inFlightAtDrop>>

\* A drop that does not join the thread.
DropJoinDetach ==
    /\ mpc = "d_join"
    /\ mpc' = "d_cancel"
    /\ midx' = midx + 1
    /\ UNCHANGED <<otherVars, taskCount, backlog, taskVars, nPushed, histVars, pushedAtCall,
                   inFlightAtDrop>>

\* Drop for Task: thread.join().unwrap() returns when the thread has exited
DropJoin ==
    /\ mpc = "d_join"
    /\ TaskIsFinished(midx)
    /\ mpc' = "d_cancel"
    /\ midx' = midx + 1
    /\ UNCHANGED <<otherVars, taskCount, backlog, taskVars, nPushed, histVars, pushedAtCall,
                   inFlightAtDrop>>

Next ==
    \/ \E p \in Producers : Push(p)
    \/ \E w \in Tasks : TaskCheckCanceled(w)
    \/ \E w \in Tasks : TaskSetProcessing(w)
    \/ \E w \in Tasks : TaskHandlerPop(w)
    \/ \E w \in Tasks : TaskHandlerRun(w)
    \/ \E w \in Tasks : TaskHandlerReturn(w)
    \/ \E w \in Tasks : TaskResetProcessing(w)
    \/ IsBusyCall
    \/ IsBusyScan
    \/ WaitCall
    \/ WaitIsEmpty
    \/ WaitIsBusy
    \/ WaitSleep
    \/ DropBegin
    \/ DropCancel
    \/ DropJoin

Spec == Init /\ [][Next]_vars

\* The scheduler runs every thread that can take a step: the task threads
\* and the owner inside a call.  Calls (push, wait, is_busy, the drop) are
\* the program's choice and carry no fairness.
FairSpec ==
    /\ Spec
    /\ \A w \in Tasks : WF_vars(TaskStep(w))
    /\ WF_vars(IsBusyScan)
    /\ WF_vars(WaitIsEmpty)
    /\ WF_vars(WaitIsBusy)
    /\ WF_vars(WaitSleep)
    /\ WF_vars(DropCancel)
    /\ WF_vars(DropJoin)

(***************************************************************************)
(* Vocabulary of the properties.                                           *)
(***************************************************************************)
Live == 1..taskCount

InWait == mpc \in {"w_empty", "w_busy", "w_sleep"}

\* wait() has been called and its latest call has returned
WaitReturned == pushedAtCall >= 0 /\ ~InWait

\* no push has completed since the latest wait() was called
NoPushSinceCall == nPushed = pushedAtCall

\* the step in which wait() returns
WaitReturns == InWait /\ mpc' = "idle"

\* the step in which is_busy() returns b
IsBusyReturns(b) == mpc = "b_scan" /\ mpc' = "idle" /\ TaskIsBusy(midx) = b

Occurrences(s, x) == Cardinality({k \in 1..Len(s) : s[k] = x})

SingleProducer == \A i, j \in 1..nPushed : owner[i] = owner[j]

(***************************************************************************)
(* Properties.                                                             *)
(***************************************************************************)
\* C1: conservation.  With at least one task, when wait() has returned and no
\* push completed after it was called, the handler has been invoked exactly
\* once on every pushed item and each of these invocations has ended; nothing
\* is left in the backlog or in a task's hands.
C1_Conservation ==
    (taskCount >= 1 /\ WaitReturned /\ NoPushSinceCall) =>
        /\ Len(started) = nPushed
        /\ \A i \in 1..nPushed : Occurrences(started, i) = 1 /\ outcome[i] # "none"
        /\ \A w \in Live : cur[w] = None
        /\ IsEmpty

C1_Witness ==
    /\ taskCount = 2 /\ WaitReturned /\ NoPushSinceCall /\ mpc = "idle"
    /\ nPushed = 2 /\ owner[1] # owner[2]
    /\ Len(started) = 2 /\ outcome[1] = "ok" /\ outcome[2] = "ok"

\* C2: in the step in which wait() returns, no push having completed during
\* the wait, the backlog is empty and every task's busy flag is false.
C2_WaitReturnsQuiescent ==
    [][(WaitReturns /\ nPushed' = pushedAtCall') =>
           (QueueIsEmpty(backlog') /\ \A w \in Live : ~is_processing'[w])]_vars

\* C3: after wait() has returned and while no further item is pushed, every
\* is_empty() returns true and every is_busy() returns false.
C3_IdleAfterWait ==
    [][(WaitReturned /\ NoPushSinceCall) => (IsEmpty /\ ~IsBusyReturns(TRUE))]_vars

\* C4: before the first push, every is_empty() returns true and every
\* is_busy() returns false, for any task_count.
C4_FreshQueueIdle ==
    [][(nPushed = 0) => (IsEmpty /\ ~IsBusyReturns(TRUE))]_vars

\* C5: with at least one task, a wait() that has been called eventually
\* returns (pushes are finitely many, every handler invocation ends).
C5_WaitTerminates ==
    (taskCount >= 1 /\ InWait) ~> (~InWait)

\* C6: with task_count = 0 nothing is ever popped or handled, a wait() called
\* after a push has not returned in any reachable state, and a wait() with
\* nothing pushed never sleeps.
C6_NoTasks ==
    (taskCount = 0) =>
        /\ started = <<>>
        /\ QueueContents(backlog) = [i \in 1..nPushed |-> i]
        /\ (WaitReturned => pushedAtCall = 0)
        /\ (nPushed = 0 => mpc # "w_sleep")

C6_Witness ==
    taskCount = 0 /\ pushedAtCall >= 1 /\ mpc = "w_sleep" /\ nPushed = 2

\* C7: with one task and a single producer the handler is invoked on the
\* items in the order they were pushed.
C7_Fifo ==
    (taskCount = 1 /\ SingleProducer) => \A k \in 1..Len(started) : started[k] = k

C7_Witness ==
    taskCount = 1 /\ SingleProducer /\ nPushed = 2 /\ Len(started) = 2

\* C8: panic isolation.  A task's thread exits only after its cancelled flag
\* was set, whatever the handler did, and at the top of every loop iteration
\* its busy flag is false again; so a task that has seen a panic is still
\* there to take the next item.
C8_PanicIsolation ==
    \A w \in Live :
        /\ tpc[w] = "exited" => is_canceled[w]
        /\ tpc[w] \in {"top", "mark"} => ~is_processing[w]
        /\ tpc[w] # "none"

C8_Witness ==
    /\ taskCount = 1 /\ outcome[1] = "panic" /\ ~is_canceled[1]
    /\ tpc[1] = "run" /\ cur[1] = 2

\* C9: an item whose handler invocation panicked is not in the backlog, is
\* not in a task's hands and has been handed to the handler exactly once.
C9_NoRetry ==
    \A i \in 1..nPushed :
        outcome[i] = "panic" =>
            /\ i \notin Range(QueueContents(backlog))
            /\ i \notin InFlight
            /\ Occurrences(started, i) = 1

C9_Witness ==
    /\ Len(started) = 2 /\ outcome[started[1]] = "panic" /\ outcome[started[2]] = "ok"
    /\ \A w \in Live : tpc[w] = "top"

\* C10: when the drop of the pool has completed, every task's thread has
\* exited and every handler invocation that was running when the drop began
\* has ended.
C10_Teardown ==
    (mpc = "dropped") =>
        /\ \A w \in Live : tpc[w] = "exited" /\ cur[w] = None
        /\ \A i \in inFlightAtDrop : outcome[i] # "none"
        /\ InFlight = {}

C10_Witness ==
    mpc = "dropped" /\ taskCount = 2 /\ Cardinality(inFlightAtDrop) = 2

\* the items pushed and not yet taken out of the backlog by a task
Pending == {i \in 1..nPushed : i \notin Range(started)}

\* C11: is_empty() is true exactly when no pushed item is still waiting in
\* the backlog, whatever the tasks are doing.
C11_IsEmptyIffNoPending ==
    IsEmpty <=> (Pending = {})

\* is_empty() is true while a task is executing the handler on an item
C11_Witness ==
    IsEmpty /\ nPushed >= 1 /\ \E w \in Live : tpc[w] = "run" /\ cur[w] # None

\* C12: a task's busy flag goes from false to true only in the hands of a
\* task that holds an item it obtained from the queue.
C12_BusyOnlyWithItem ==
    [][\A w \in Live : (~is_processing[w] /\ is_processing'[w]) => cur'[w] # None]_vars

\* C13: is_busy() returns true only if some flag is true at the instant it
\* returns, and false only if every flag is false and no task is executing
\* the handler at that instant.
C13_IsBusyExact ==
    [][/\ IsBusyReturns(TRUE) => \E w \in Live : is_processing[w]
       /\ IsBusyReturns(FALSE) => \A w \in Live : ~is_processing[w] /\ tpc[w] # "run"]_vars

\* C13 as amended: a task executing the handler has its flag true; is_busy()
\* returns true only on a flag that is true when read, and when it returns
\* false the task read last is not executing the handler (with one task:
\* no flag is true).
C13_IsBusyScan ==
    [][/\ \A w \in Live : tpc[w] = "run" => is_processing[w]
       /\ IsBusyReturns(TRUE) => \E w \in Live : is_processing[w]
       /\ IsBusyReturns(FALSE) =>
              /\ tpc[midx] # "run"
              /\ taskCount = 1 => \A w \in Live : ~is_processing[w] /\ tpc[w] # "run"]_vars

\* is_busy() is about to return false while task 1 executes the handler
C13_Witness ==
    /\ taskCount = 2 /\ mpc = "b_scan" /\ midx = 2
    /\ tpc[1] = "run" /\ is_processing[1] /\ ~is_processing[2]

(***************************************************************************)
(* A Task on its own: Task::new(handler) with any handler Fn() -> bool,    *)
(* and the calls a holder of the Task can make (cancel, is_canceled,       *)
(* is_busy, is_finished, drop).  The positions of the thread are those of  *)
(* the pool's tasks; "pop" is the entry of catch_unwind, "run" the handler *)
(* executing.                                                              *)
(***************************************************************************)
\* let result = handler(): the handler is entered
TaskCallHandler(w) ==
    /\ tpc[w] = "pop"
    /\ tpc' = [tpc EXCEPT ![w] = "run"]
    /\ UNCHANGED <<otherVars, taskCount, backlog, is_processing, is_canceled, cur, nPushed,
                   histVars, ownerVars>>

\* the handler ends: true takes the `if result` branch, false falls out of
\* the closure, a panic is caught by catch_unwind
TaskHandlerEnds(w) ==
    /\ tpc[w] = "run"
    /\ \E res \in {"true", "false", "panic"} :
          tpc' = [tpc EXCEPT ![w] = IF res = "true" THEN "ret" ELSE "reset"]
    /\ UNCHANGED <<otherVars, taskCount, backlog, is_processing, is_canceled, cur, nPushed,
                   histVars, ownerVars>>

\* A cancel that also clears the busy flag of the task.
TaskCancelClearsBusy(w) ==
    /\ mpc = "idle"
    /\ w \in Live
    /\ is_canceled' = [is_canceled EXCEPT ![w] = TRUE]
    /\ is_processing' = [is_processing EXCEPT ![w] = FALSE]
    /\ UNCHANGED <<otherVars, taskCount, backlog, tpc, cur, nPushed, histVars, ownerVars>>

\* A cancel that flips the flag.
TaskCancelToggle(w) ==
    /\ mpc = "idle"
    /\ w \in Live
    /\ is_canceled' = [is_canceled EXCEPT ![w] = ~is_canceled[w]]
    /\ UNCHANGED <<otherVars, taskCount, backlog, is_processing, tpc, cur, nPushed,
                   histVars, ownerVars>>

\* Task::cancel: *is_canceled = true, by any thread holding the Task
TaskCancel(w) ==
    /\ mpc = "idle"
    /\ w \in Live
    /\ is_canceled' = [is_canceled EXCEPT ![w] = TRUE]
    /\ UNCHANGED <<otherVars, taskCount, backlog, is_processing, tpc, cur, nPushed,
                   histVars, ownerVars>>

\* Task::is_canceled
TaskIsCanceled(w) == is_canceled[w]

TaskThread(w) ==
    \/ TaskCheckCanceled(w)
    \/ TaskSetProcessing(w)
    \/ TaskCallHandler(w)
    \/ TaskHandlerEnds(w)
    \/ TaskHandlerReturn(w)
    \/ TaskResetProcessing(w)

TaskNext ==
    \/ \E w \in Tasks : TaskCheckCanceled(w)
    \/ \E w \in Tasks : TaskSetProcessing(w)
    \/ \E w \in Tasks : TaskCallHandler(w)
    \/ \E w \in Tasks : TaskHandlerEnds(w)
    \/ \E w \in Tasks : TaskHandlerReturn(w)
    \/ \E w \in Tasks : TaskResetProcessing(w)
    \/ \E w \in Tasks : TaskCancel(w)
    \/ DropBegin
    \/ DropCancel
    \/ DropJoin

TaskSpec == Init /\ [][TaskNext]_vars

\* Every task thread that can take a step is run; a handler that has been
\* entered ends.
TaskFairSpec ==
    /\ TaskSpec
    /\ \A w \in Tasks : WF_vars(TaskThread(w))

\* C14: the cancelled flag is write-once and cancel() is idempotent and never
\* blocked: a flag that is true stays true in every step, a cancel() of a
\* task already cancelled changes nothing, and cancel() can be executed
\* whatever the task's thread is doing.
C14_CancelWriteOnce ==
    /\ [](mpc = "idle" => \A w \in Live : ENABLED TaskCancel(w))
    /\ [][\A w \in Live :
             /\ TaskIsCanceled(w) => TaskIsCanceled(w)'
             /\ (TaskIsCanceled(w) /\ TaskCancel(w)) => UNCHANGED vars]_vars

\* task 1 was cancelled while its handler was running
C14_Witness ==
    taskCount = 2 /\ mpc = "idle" /\ is_canceled[1] /\ ~is_canceled[2] /\ tpc[1] = "run"

\* C15: a cancelled task's thread eventually exits, and a thread that has
\* exited stays exited with its busy flag false.
C15_CancelledTerminal ==
    /\ \A w \in Tasks : (w \in Live /\ is_canceled[w]) ~> TaskIsFinished(w)
    /\ [][\A w \in Live : TaskIsFinished(w) =>
             (TaskIsFinished(w)' /\ ~is_processing[w] /\ ~is_processing'[w])]_vars

\* a task cancelled by cancel() has exited before any drop
C15_Witness ==
    taskCount = 1 /\ mpc = "idle" /\ is_canceled[1] /\ tpc[1] = "exited"

(***************************************************************************)
(* The ArcQueue under concurrent producers and consumers.                  *)
(***************************************************************************)
ArcNext ==
    \/ \E src \in AqHolders, t \in AqThreads : ArcClone(src, t)
    \/ \E t \in AqThreads : ArcLock(t)
    \/ \E p \in Producers : ArcPush(p)
    \/ \E c \in Consumers : ArcPop(c)

ArcSpec == Init /\ [][ArcNext]_vars

GotItems == [k \in 1..Len(aqGot) |-> aqGot[k].item]

\* The items pushed and not yet popped, oldest first.
AqPending == SubSeq(aqPushLog, Len(aqGot) + 1, Len(aqPushLog))

\* C16: the queue is FIFO under every interleaving of push and pop: the
\* items popped so far are, in order, the first items pushed; the next pop
\* returns the oldest item not yet popped, and None exactly when every
\* pushed item has been popped.
C16_ArcFifo ==
    /\ Len(aqGot) <= Len(aqPushLog)
    /\ GotItems = SubSeq(aqPushLog, 1, Len(aqGot))
    /\ QueuePop(aqCell[aqHandle["main"]]).item = Front(AqPending)
    /\ (QueuePop(aqCell[aqHandle["main"]]).item = None) <=> (Len(aqGot) = Len(aqPushLog))

\* pushes of two producers and pops interleaved: an item was popped, then
\* pushed items went to the backlog stack while older ones wait in the
\* items stack
C16_Witness ==
    /\ Len(aqGot) = 1
    /\ Len(aqPushLog) = 3
    /\ aqCell[1].items # <<>>
    /\ aqCell[1].backlog # <<>>
    /\ ProducerOf(aqPushLog[1]) # ProducerOf(aqPushLog[2])

Holding == {h \in AqHolders : aqHandle[h] # 0}

\* C17: every clone is a handle to the same underlying sequence: through
\* every handle is_empty() gives the same answer and pop returns the oldest
\* item pushed, through whichever handle, and not yet popped; the items
\* consumers got through their handles are the items producers pushed
\* through theirs.
C17_SharedHandles ==
    /\ \A h1, h2 \in Holding : ArcIsEmpty(h1) = ArcIsEmpty(h2)
    /\ \A h \in Holding :
          /\ QueuePop(aqCell[aqHandle[h]]).item = Front(AqPending)
          /\ ArcIsEmpty(h) <=> (AqPending = <<>>)
    /\ Range(GotItems) \subseteq Range(aqPushLog)

\* every thread holds a clone; a consumer got an item a producer pushed
\* through another handle, and a pushed item is still in the queue
C17_Witness ==
    /\ Holding = AqHolders
    /\ Len(aqGot) >= 1
    /\ AqPending # <<>>
    /\ ~ArcIsEmpty("c2")

GotFrom(p) == SelectSeq(GotItems, LAMBDA x : ProducerOf(x) = p)

\* C18: with several producers pushing concurrently, the items of each
\* single producer are popped in the order that producer pushed them: the
\* items popped so far that came from producer p are its 1st, 2nd, ... item,
\* in that order.
C18_PerProducerOrder ==
    \A p \in Producers : GotFrom(p) = [k \in 1..Len(GotFrom(p)) |-> AqItem(p, k)]

\* the pushes of the two producers interleaved: p1, p2, p1 came out
C18_Witness ==
    /\ Len(aqGot) >= 3
    /\ ProducerOf(aqGot[1].item) = "p1"
    /\ ProducerOf(aqGot[2].item) = "p2"
    /\ ProducerOf(aqGot[3].item) = "p1"
    /\ aqGot[1].by # aqGot[3].by

\* C19: with concurrent producers and concurrent consumers, push and pop
\* are mutually exclusive (at most one thread holds the guard of the queue)
\* and every pushed item is either still in the queue, once, or was
\* returned by exactly one pop: none is delivered twice and none is lost.
C19_ExactlyOnce ==
    /\ \A t1, t2 \in AqThreads : (t1 # t2 /\ aqGuard[t1] # 0) => aqGuard[t2] # aqGuard[t1]
    /\ \A x \in Range(aqPushLog) :
          /\ Occurrences(GotItems, x) <= 1
          /\ Occurrences(GotItems, x) + Occurrences(QueueContents(aqCell[1]), x) = 1
    /\ Len(aqPushLog) = aqSent["p1"] + aqSent["p2"]

\* both producers pushed, both consumers got items, and a consumer holds
\* the guard while items are in the queue
C19_Witness ==
    /\ aqSent["p1"] >= 1 /\ aqSent["p2"] >= 1
    /\ {aqGot[k].by : k \in 1..Len(aqGot)} = Consumers
    /\ aqGuard["c1"] # 0
    /\ AqPending # <<>>

(***************************************************************************)
(* The two-stack Queue used by one thread.                                 *)
(***************************************************************************)
QueueNext ==
    \/ \E v \in Items : SeqPush(v)
    \/ SeqPop
    \/ SeqPeek

QueueSpec == Init /\ [][QueueNext]_vars

\* C20: peek returns exactly the item the next pop would return (None on an
\* empty queue) and leaves the contents and their order as they were, also
\* when it moves the backlog stack to the items stack; pushes made after a
\* peek are popped after the items already present (every pop returns the
\* oldest item of the sequence pushed).
C20_PeekFrame ==
    /\ QueueContents(sq) = sqModel
    /\ sqLast.op \in {"peek", "pop"} => sqLast.res = sqLast.want
    /\ sqLast.op = "peek" => sqLast.res = QueuePop(sq).item

\* a peek that found items in the items stack while later pushes wait in
\* the backlog stack
C20_Witness ==
    /\ sqLast.op = "peek"
    /\ sqLast.res # None
    /\ sq.items # <<>>
    /\ sq.backlog # <<>>
    /\ StackTop(sq.backlog) # sqLast.res

(***************************************************************************)
(* The linked-list Stack used by one thread.                               *)
(***************************************************************************)
StackNext ==
    \/ \E v \in StackValues : StkPush(v)
    \/ StkPop
    \/ StkReverse

StackSpec == Init /\ [][StackNext]_vars

\* C21: the stack is LIFO: pop returns the most recently pushed item not yet
\* popped and None on an empty stack, popping the stack until it is empty
\* gives the items in the reverse of their push order, and the stack that
\* reverse() returns is popped in the push order of the original.
C21_StackLifo ==
    /\ stkLast.op \in {"pop", "reverse"} => stkLast.res = stkLast.want
    /\ StackPopOrder(stk) = Reverse(stkModel)

\* reverse() of a stack of three items, the first and the last different
C21_Witness ==
    /\ stkLast.op = "reverse"
    /\ Len(stkLast.res) = 3
    /\ stkLast.res[1] # stkLast.res[3]
    /\ StackTop(stk) = stkLast.res[1]

(***************************************************************************)
(* The Signal under concurrent set and listen.                             *)
(***************************************************************************)
SignalNext ==
    \/ \E src \in SigHolders, t \in SigThreads : SignalClone(src, t)
    \/ \E t \in SigThreads, v \in SigValues : SignalSetStore(t, v)
    \/ \E t \in SigThreads : SignalSetLockCallbacks(t)
    \/ \E t \in SigThreads : SignalSetCall(t)
    \/ \E t \in SigThreads : SignalSetReturn(t)
    \/ \E t \in SigThreads : SignalListen(t)

SignalSpec == Init /\ [][SignalNext]_vars

CalledCbs(t) == [k \in 1..Len(sigCalled[t]) |-> sigCalled[t][k].cb]

\* C22: when set(v) returns it has invoked every callback registered so far
\* exactly once, in registration order, each with v, and get() returns v;
\* the value get() returns changes only by a set.
C22_SetNotifiesAll ==
    [][/\ \A t \in SigThreads :
             SignalSetReturn(t) =>
                 /\ CalledCbs(t) = sigRegLog
                 /\ \A k \in 1..Len(sigCalled[t]) : sigCalled[t][k].v = sigArg[t]
                 /\ SignalGet(t)' = sigArg[t]
       /\ (sigValue' # sigValue) =>
             \E t \in SigThreads, v \in SigValues : SignalSetStore(t, v)]_vars

\* a set(2) about to return after it invoked two callbacks, registered by
\* two threads
C22_Witness ==
    /\ sigPc["t1"] = "calling"
    /\ sigArg["t1"] = 2
    /\ Len(sigCalled["t1"]) = 2
    /\ SigCbOwner(sigCalled["t1"][1].cb) # SigCbOwner(sigCalled["t1"][2].cb)
    /\ Len(sigRegLog) = 2

SigHolding == {h \in SigHolders : sigHandle[h] # 0}

\* C23: a clone shares the value and the callback list with the original:
\* through every handle the callback list is the list of all callbacks
\* registered, through whichever handle, get() returns the same value, and
\* the callbacks a set invokes are the registered ones, in that order.
C23_CloneShares ==
    /\ \A h \in SigHolding :
          /\ sigCallbacks[sigHandle[h]] = sigRegLog
          /\ SignalGet(h) = SignalGet("main")
    /\ \A t \in SigThreads : \A k \in 1..Len(sigCalled[t]) :
          /\ k <= Len(sigRegLog)
          /\ sigCalled[t][k].cb = sigRegLog[k]

\* a set through the clone of t2 invoked the callback t1 registered through
\* its clone, and the original's value is the value set
C23_Witness ==
    /\ sigPc["t2"] = "calling"
    /\ Len(sigCalled["t2"]) >= 1
    /\ sigCalled["t2"][1].cb = SigCb("t1", 1)
    /\ SignalGet("main") = sigArg["t2"]
    /\ SignalGet("t1") = 2

(***************************************************************************)
(* The MessageQueue: handlers are added and messages notified in any order.*)
(***************************************************************************)
MqNext ==
    \/ \E kind \in HandlerKinds : MqAddHandler(kind)
    \/ \E msg \in Messages : MqNotify(msg)

MqSpec == Init /\ [][MqNext]_vars

\* The handlers, of those registered when the latest notify ran, that
\* return true for its message.
MqStoppers == {i \in 1..mqLast.n : HandlerResult(mqHandlers[i], mqLast.msg)}

\* C24: notify calls the handlers in registration order, each at most once,
\* up to and including the first that returns true; when none returns true
\* it calls every handler exactly once.
C24_NotifyStopsAtTrue ==
    LET until == IF MqStoppers = {} THEN mqLast.n
                 ELSE CHOOSE i \in MqStoppers : \A j \in MqStoppers : i <= j
    IN  mqLast.called = [k \in 1..until |-> k]

\* three handlers; the second returned true for the message, the third,
\* which returns true as well, was not called
C24_Witness ==
    /\ mqLast.n = 3
    /\ mqLast.msg = 1
    /\ mqHandlers = <<"never", "ifOne", "always">>
    /\ mqLast.called = <<1, 2>>

(***************************************************************************)
(* The Graph: inserts and connects in any order.                           *)
(***************************************************************************)
GraphNext ==
    \/ \E value \in NodeValues : GraphInsert(value)
    \/ \E from \in NodeIdInputs, to \in NodeIdInputs, value \in EdgeValues :
          GraphConnect(from, value, to)

GraphSpec == Init /\ [][GraphNext]_vars

\* C25: connect(from, value, to) returns None and leaves edge_count, the
\* edges and the next edge id unchanged when from == to or when from or to
\* is not a node of the graph; otherwise it returns an edge id no edge had,
\* the edge of that id goes from `from` to `to`, and edge_count grows by one.
C25_ConnectValidates ==
    [][\A from \in NodeIdInputs, to \in NodeIdInputs, value \in EdgeValues :
          GraphConnect(from, value, to) =>
             IF from = to \/ from \notin DOMAIN gNodes \/ to \notin DOMAIN gNodes
             THEN /\ gLast'.res = GNone
                  /\ GraphEdgeCount' = GraphEdgeCount
                  /\ gEdges' = gEdges
                  /\ gNextEdge' = gNextEdge
             ELSE /\ gLast'.res.some
                  /\ gLast'.res.id \notin DOMAIN gEdges
                  /\ gEdges'[gLast'.res.id] = [from |-> from, to |-> to, value |-> value]
                  /\ \A e \in DOMAIN gEdges : gEdges'[e] = gEdges[e]
                  /\ GraphEdgeCount' = GraphEdgeCount + 1]_vars

\* a self-loop on a node of the graph was refused after an edge was made
C25_Witness ==
    /\ gLast.op = "connect"
    /\ gLast.res = GNone
    /\ gLast.from = gLast.to
    /\ gLast.from \in DOMAIN gNodes
    /\ GraphEdgeCount = 1
    /\ gNextEdge = 1

\* C26: node and edge ids are unique within a graph: the ids insert
\* returned are pairwise different and so are the ids connect returned,
\* node_count() is the number of inserts made, edge_count() the number of
\* edges made, and node(id) is the value inserted under that id.
C26_IdsUnique ==
    /\ \A i, j \in 1..Len(gLog.nodes) : i # j => gLog.nodes[i].id # gLog.nodes[j].id
    /\ \A i, j \in 1..Len(gLog.edges) : i # j => gLog.edges[i] # gLog.edges[j]
    /\ GraphNodeCount = Len(gLog.nodes)
    /\ GraphEdgeCount = Len(gLog.edges)
    /\ \A k \in 1..Len(gLog.nodes) : GraphNode(gLog.nodes[k].id) = gLog.nodes[k].value

\* two inserts of the same value, and two edges between the two nodes
C26_Witness ==
    /\ Len(gLog.nodes) = 2
    /\ gLog.nodes[1].value = gLog.nodes[2].value
    /\ Len(gLog.edges) = 2
    /\ gEdges[gLog.edges[1]].from = gEdges[gLog.edges[2]].to

(***************************************************************************)
(* The PropertyCollection: set, remove, clear and index in any order.      *)
(***************************************************************************)
PropNext ==
    \/ \E k \in PropKeys, v \in PropValues : PropSet(k, v)
    \/ \E k \in PropKeys : PropRemove(k)
    \/ PropClear
    \/ \E k \in PropKeys : PropIndex(k)

PropSpec == Init /\ [][PropNext]_vars

\* C27: after set(k, v), get(k) returns v, and a set on an existing key
\* leaves len() as it was; after remove(k), get(k) returns None, and a
\* remove of an absent key changes nothing; after clear(), len() is 0;
\* indexing with an absent key panics, with a present key it gives the
\* value; no call changes the value of another key.
C27_PropertyMap ==
    [][/\ \A k \in PropKeys, v \in PropValues :
             PropSet(k, v) =>
                 /\ PropGet(k)' = v
                 /\ PropLen' = IF k \in DOMAIN props THEN PropLen ELSE PropLen + 1
                 /\ \A o \in PropKeys \ {k} : PropGet(o)' = PropGet(o)
       /\ \A k \in PropKeys :
             PropRemove(k) =>
                 /\ PropGet(k)' = PNone
                 /\ k \notin DOMAIN props => props' = props
                 /\ \A o \in PropKeys \ {k} : PropGet(o)' = PropGet(o)
       /\ PropClear => PropLen' = 0
       /\ \A k \in PropKeys :
             PropIndex(k) =>
                 /\ pLast'.res = IF k \in DOMAIN props THEN props[k] ELSE PPanic
                 /\ k \notin DOMAIN props => pLast'.res \notin PropValues \cup {PNone}
                 /\ props' = props]_vars

\* indexing with a key that was set and then removed panicked, while the
\* other key holds a value
C27_Witness ==
    /\ pLast.op = "index"
    /\ pLast.key = "key1"
    /\ pLast.res = PPanic
    /\ PropLen = 1
    /\ PropGet("key2") = "String(value2)"

(***************************************************************************)
(* What the pool does not guarantee.                                       *)
(***************************************************************************)
\* the handler has ended on an item while an item pushed earlier has not
\* been finished
FinishedOutOfOrder ==
    \E i, j \in 1..nPushed : i < j /\ outcome[j] # "none" /\ outcome[i] = "none"

\* C28: there is no ordering guarantee across workers: the handler can
\* finish an item that was pushed later before it finishes an item pushed
\* earlier, and this happens only with more than one task.
C28_ReorderNeedsWorkers == FinishedOutOfOrder => taskCount > 1

\* two tasks: the handler ended on item 2 while it is still running on
\* item 1, which was pushed and started first
C28_Witness ==
    /\ taskCount = 2
    /\ FinishedOutOfOrder
    /\ started = <<1, 2>>
    /\ 1 \in InFlight
    /\ outcome[2] = "ok"

\* the items pushed and not yet finished: in the backlog or in flight
Unfinished == Range(QueueContents(backlog)) \cup InFlight

\* C29: wait() is a best-effort barrier: when it has returned, an item can
\* still be in the backlog or in flight, and every such item was pushed
\* after that wait() was called.
C29_WaitBestEffort ==
    WaitReturned => \A i \in Unfinished : i > pushedAtCall

\* wait() was called after the first push and has returned; the item pushed
\* during the wait is in flight
C29_Witness ==
    /\ WaitReturned
    /\ mpc = "idle"
    /\ taskCount >= 1
    /\ pushedAtCall = 1
    /\ outcome[1] # "none"
    /\ 2 \in InFlight

\* C30: when the handler passed to Task::new returns true the loop is
\* broken: from the point where the closure has returned on a true result
\* the thread goes nowhere but to its exit, and the handler is not called
\* again.
C30_TrueBreaksLoop ==
    [][\A w \in Live : tpc[w] = "ret" => tpc'[w] \in {"ret", "exited"}]_vars

(***************************************************************************)
(* The pool with cancel() called on single workers by the owner thread,    *)
(* besides every call of the pool.                                         *)
(***************************************************************************)
CancelNext ==
    \/ Next
    \/ \E w \in Tasks : TaskCancel(w)

CancelSpec == Init /\ [][CancelNext]_vars

\* the steps of calls other than cancel made on the pool from outside the
\* task threads
PoolCall ==
    \/ \E p \in Producers : Push(p)
    \/ IsBusyCall \/ IsBusyScan
    \/ WaitCall \/ WaitIsEmpty \/ WaitIsBusy \/ WaitSleep
    \/ DropBegin \/ DropCancel \/ DropJoin

\* C31: each task's busy flag is written only by that task's own thread:
\* push, is_empty, is_busy, wait, cancel and the destructor never change a
\* busy flag, and cancel(w) changes nothing but the cancelled flag of w.
C31_BusyFlagOwner ==
    [][/\ \A w \in Tasks : is_processing'[w] # is_processing[w] => TaskStep(w)
       /\ PoolCall => is_processing' = is_processing
       /\ \A w \in Tasks :
             TaskCancel(w) =>
                 /\ is_processing' = is_processing
                 /\ \A v \in Tasks \ {w} : is_canceled'[v] = is_canceled[v]
                 /\ UNCHANGED <<taskCount, backlog, tpc, cur, nPushed, histVars, ownerVars>>]_vars

\* cancel() was called on task 1 while its handler runs on an item and its
\* busy flag is true; task 2 is not cancelled and the pool is not dropped
C31_Witness ==
    /\ taskCount = 2
    /\ mpc = "idle"
    /\ is_canceled[1] /\ ~is_canceled[2]
    /\ tpc[1] = "run" /\ is_processing[1]
    /\ nPushed = 2

\* C32: dropping the pool does not drain the backlog: once every task's
\* thread has exited no handler is invoked any more and the backlog stays as
\* it is, so when the drop has completed the items still queued are exactly
\* the pushed items the handler was never invoked on.
C32_DropDoesNotDrain ==
    /\ [][(\A w \in Live : TaskIsFinished(w)) =>
             (started' = started /\ outcome' = outcome /\
              QueueContents(backlog') = QueueContents(backlog) \o
                  [k \in 1..(nPushed' - nPushed) |-> nPushed + k])]_vars
    /\ [](mpc = "dropped" =>
             /\ \A w \in Live : TaskIsFinished(w)
             /\ Range(QueueContents(backlog)) = Pending
             /\ Len(started) = nPushed - Cardinality(Pending))

\* the drop has completed with two items pushed, one handled and one left
\* in the backlog
C32_Witness ==
    /\ mpc = "dropped"
    /\ taskCount = 2
    /\ nPushed = 2
    /\ Len(started) = 1
    /\ QueueContents(backlog) = <<2>>

\* the part of a loop iteration between the cancellation check and the pop
BeforePop(w) == tpc[w] \in {"mark", "pop"}

\* C33: cancellation is observed only at the top of a loop iteration: a
\* cancelled task whose thread is at the top exits there, and a cancelled
\* task whose thread is not between its cancellation check and its pop
\* never gets there again; so after its flag was set a task pops at most
\* once more, in the iteration that had passed the check, and that
\* iteration is completed.
C33_CancelAtLoopTop ==
    [][\A w \in Live :
          is_canceled[w] =>
             /\ is_canceled'[w]
             /\ tpc[w] = "top" => tpc'[w] \in {"top", "exited"}
             /\ ~BeforePop(w) => ~BeforePop(w)'
             /\ tpc[w] = "run" => tpc'[w] \in {"run", "ret", "reset"}]_vars

\* the drop has set the flag of task 1 and waits for its thread, which had
\* passed its check and is about to pop an item
C33_Witness ==
    /\ mpc = "d_join" /\ midx = 1
    /\ is_canceled[1]
    /\ tpc[1] = "pop"
    /\ ~IsEmpty

\* the tasks that hold an item: popped, handler not yet ended
Holders == {w \in Live : cur[w] # None}

\* the items whose handler invocation has ended, by return or by panic
Finished == {i \in 1..nPushed : outcome[i] # "none"}

\* C34: item accounting: the number of items pushed is the number in the
\* backlog plus the number held by tasks plus the number whose handler
\* invocation has returned or panicked; a task holds an item exactly while
\* its handler runs, no two tasks hold the same item, and an item is in
\* only one of the three places.
C34_ItemAccounting ==
    /\ nPushed = Len(QueueContents(backlog)) + Cardinality(Holders) + Cardinality(Finished)
    /\ \A w \in Live : cur[w] # None <=> tpc[w] = "run"
    /\ \A w1, w2 \in Holders : w1 # w2 => cur[w1] # cur[w2]
    /\ \A i \in 1..nPushed :
          Occurrences(QueueContents(backlog), i)
              + Cardinality({w \in Holders : cur[w] = i})
              + (IF i \in Finished THEN 1 ELSE 0) = 1

\* the handler panicked on the first item; the second is held by task 2,
\* whose handler runs on it
C34_Witness ==
    /\ taskCount = 2
    /\ nPushed = 2
    /\ Cardinality(Holders) = 1
    /\ Cardinality(Finished) = 1
    /\ outcome[1] = "panic"
    /\ cur[2] = 2

\* C35: whatever the number of tasks, items leave the backlog in the order
\* their pushes took the queue lock: the k-th item popped by any task is the
\* k-th item pushed, and an item is popped only after every item pushed
\* before it.
C35_PopOrderIsPushOrder ==
    /\ \A k \in 1..Len(started) : started[k] = k
    /\ \A i \in Range(started) : \A j \in 1..i : j \in Range(started)
    /\ QueueContents(backlog) = [k \in 1..(nPushed - Len(started)) |-> Len(started) + k]

\* two producers, two tasks: task 2 popped the first item, task 1 the
\* second, and the handler has ended on the second only
C35_Witness ==
    /\ taskCount = 2
    /\ owner[1] # owner[2]
    /\ started = <<1, 2>>
    /\ cur[2] = 1
    /\ tpc[1] = "ret"
    /\ outcome[2] = "panic"

\* C36: the destructor tears the tasks down one after the other: the
\* cancelled flag of a task is set only after the threads of all tasks
\* before it have exited, and while the destructor waits for a task the
\* later ones are not cancelled.
C36_TeardownInOrder ==
    /\ \A w \in Live : is_canceled[w] => \A v \in 1..(w - 1) : TaskIsFinished(v)
    /\ mpc = "d_join" => \A w \in Live : w > midx => ~is_canceled[w]

\* the destructor waits for task 1, whose handler still runs; task 2, not
\* yet cancelled, handles an item it popped after the drop began
C36_Witness ==
    /\ taskCount = 2
    /\ mpc = "d_join" /\ midx = 1
    /\ is_canceled[1] /\ tpc[1] = "run"
    /\ ~is_canceled[2] /\ tpc[2] = "run"
    /\ cur[2] \notin inFlightAtDrop

====
